---- MODULE Spec2Model ----
(***************************************************************************)
(* A model of rancher_tools.py: helper functions that read, patch and      *)
(* submit the JSON documents of a Rancher service.                         *)
(*                                                                         *)
(* In-memory documents live in a heap of dict objects so that aliasing     *)
(* (deepcopy against a shared reference) is observable.  JSON bodies on    *)
(* the wire are plain nested values.  The remote server owns one service   *)
(* document and answers every request.                                     *)
(***************************************************************************)
EXTENDS Integers, Sequences, FiniteSets, TLC

VARIABLES
    remote,     \* the server's current document of the service (a JSON value)
    heap,       \* client memory: address -> dict object
    input,      \* the JSON value of the caller's document when the call was made
    now,        \* the reading of datetime.now(); time passes in whole seconds
    pc,         \* position of the client: "idle", a position inside a call, "done"
    call,       \* the operation called and its arguments
    svc,        \* the local variable svc of the running operation (an address)
    deadline,   \* the local variable deadline of await_active / await_healthy
    log,        \* the effects of the call so far: requests issued and sleeps, in order
    result      \* how the call ended: what it returned or raised

vars == <<remote, heap, input, now, pc, call, svc, deadline, log, result>>

----------------------------------------------------------------------------
(* Bounds of the model *)

MaxRules == 2
MaxTimeout == 2
MaxClock == MaxTimeout + 2

----------------------------------------------------------------------------
(* Values *)

\* Python's None
NoneVal == "<None>"

\* an optional integer argument: <<>> is None, <<t>> is the number t
NoTimeout == <<>>

\* lines 13-24: the base URL, with its trailing slash
CATTLE_URL == "http://rancher/v2-beta/"

\* datetime.max: later than every reading of the clock
DatetimeMax == 99999999

\* the URL of a service, as the f-strings of lines 46, 189, 279, 297 build it
ServiceUrl(project_id, service_id) ==
    CATTLE_URL \o "projects/" \o project_id \o "/services/" \o service_id

\* the URL of a project's service collection (lines 229, 251)
ServicesUrl(project_id) == CATTLE_URL \o "projects/" \o project_id \o "/services"

\* f'docker:{image_name}'
DockerUuid(image_name) == "docker:" \o image_name

\* dict.get(key): None when the key is absent
Get(d, k) == IF k \in DOMAIN d THEN d[k] ELSE NoneVal

\* d[key] = value on a dict: the key is added when absent
SetItem(d, k, x) == [j \in DOMAIN d \cup {k} |-> IF j = k THEN x ELSE d[j]]

\* dict.update(other): other's entries win
Update(d, e) == [j \in DOMAIN d \cup DOMAIN e |-> IF j \in DOMAIN e THEN e[j] ELSE d[j]]

----------------------------------------------------------------------------
(* The heap.  A dict object maps keys to values; under a key of RefKeys    *)
(* the value is the address of another dict, under a key of ListKeys it is *)
(* a list of addresses.  An address is a tuple of strings: the name of the *)
(* allocation followed by the path inside the document.                    *)

RefKeys == {"launchConfig", "lbConfig", "links"}
ListKeys == {"portRules", "secondaryLaunchConfigs"}

Child(a, k) == Append(a, k)
Item(a, k, i) == a \o <<k, ToString(i)>>

\* the addresses a JSON value v occupies when it is allocated at address a
RECURSIVE Addrs(_, _)
Addrs(a, v) ==
    {a}
    \cup UNION {Addrs(Child(a, k), v[k]) : k \in DOMAIN v \cap RefKeys}
    \cup UNION {UNION {Addrs(Item(a, k, i), v[k][i]) : i \in DOMAIN v[k]}
                    : k \in DOMAIN v \cap ListKeys}

\* the part of v that lands at address p when v is allocated at address a
RECURSIVE ValAt(_, _, _)
ValAt(a, v, p) ==
    IF p = a THEN v
    ELSE LET k == p[Len(a) + 1]
         IN IF k \in RefKeys THEN ValAt(Child(a, k), v[k], p)
            ELSE LET i == CHOOSE j \in DOMAIN v[k] : ToString(j) = p[Len(a) + 2]
                 IN ValAt(Item(a, k, i), v[k][i], p)

\* the dict object that holds v at address a: nested dicts become addresses
Shell(a, v) ==
    [k \in DOMAIN v |->
        IF k \in RefKeys THEN Child(a, k)
        ELSE IF k \in ListKeys THEN [i \in DOMAIN v[k] |-> Item(a, k, i)]
        ELSE v[k]]

\* fresh objects holding the JSON value v, rooted at address a (json parsing)
Alloc(a, v) == [p \in Addrs(a, v) |-> Shell(p, ValAt(a, v, p))]

\* the heap without the objects of allocation b (they are garbage)
DropBase(h, b) == [p \in {q \in DOMAIN h : q[1] # b} |-> h[p]]

\* the heap with v parsed into allocation b
Store(h, b, v) == Alloc(<<b>>, v) @@ DropBase(h, b)

\* the JSON value of the document rooted at address a (json serialisation)
RECURSIVE Json(_, _)
Json(h, a) ==
    [k \in DOMAIN h[a] |->
        IF k \in RefKeys THEN Json(h, h[a][k])
        ELSE IF k \in ListKeys THEN [i \in DOMAIN h[a][k] |-> Json(h, h[a][k][i])]
        ELSE h[a][k]]

\* the addresses of the dicts reachable from address a
RECURSIVE Reach(_, _)
Reach(h, a) ==
    {a}
    \cup UNION {Reach(h, h[a][k]) : k \in DOMAIN h[a] \cap RefKeys}
    \cup UNION {UNION {Reach(h, h[a][k][i]) : i \in DOMAIN h[a][k]}
                    : k \in DOMAIN h[a] \cap ListKeys}

\* the caller's document
Caller == <<"caller">>

\* a shallow copy: a new top-level dict whose nested dicts are the original's
ShallowCopy(h, a) ==
    [heap |-> (<<"copy">> :> h[a]) @@ DropBase(h, "copy"), ref |-> <<"copy">>]

\* copy.deepcopy of the document at address a: the new heap and the copy's address
deepcopy(h, a) ==
    [heap |-> Store(h, "copy", Json(h, a)), ref |-> <<"copy">>]

----------------------------------------------------------------------------
(* Documents *)

PROJECT == "1a5"
SERVICE == "1s7"

Ports == {80, 443}
Paths == {"/api", "/"}
Targets == {"1s8", "1s9"}

\* port rules: with a path, without one, with a null path, on another port
Rules ==
    { [sourcePort |-> 80, path |-> "/api", serviceId |-> "1s8", protocol |-> "http"],
      [sourcePort |-> 80, serviceId |-> "1s8", protocol |-> "http"],
      [sourcePort |-> 80, path |-> NoneVal, serviceId |-> "1s8", protocol |-> "tcp"],
      [sourcePort |-> 443, path |-> "/api", serviceId |-> "1s8", protocol |-> "https"] }

RECURSIVE SeqsUpTo(_, _)
SeqsUpTo(S, n) ==
    IF n = 0 THEN {<<>>}
    ELSE LET shorter == SeqsUpTo(S, n - 1)
         IN shorter \cup {Append(s, x) : s \in {t \in shorter : Len(t) = n - 1}, x \in S}

RuleLists == SeqsUpTo(Rules, MaxRules)

Sidekick(name, image) == [name |-> name, imageUuid |-> DockerUuid(image)]

\* a service document as the server renders it
ServiceDoc(state, healthState, rules, withSlcs, slcs) ==
    LET doc ==
          [accountId |-> PROJECT, id |-> SERVICE, name |-> "web",
           state |-> state, healthState |-> healthState,
           launchConfig |-> [imageUuid |-> DockerUuid("app:1"), tty |-> TRUE],
           lbConfig |-> [portRules |-> rules],
           links |-> [self |-> ServiceUrl(PROJECT, SERVICE)]]
    IN IF withSlcs THEN doc @@ [secondaryLaunchConfigs |-> slcs] ELSE doc

----------------------------------------------------------------------------
(* The remote server *)

\* what the server does to its document on an accepted PUT of body
ServerPut(doc, body) == Update(doc, body)

\* a request: its JSON body, the addresses of the dicts the body was serialised
\* from, and whether the server accepted it (2xx) or not
Request(method, url, action, body, objs, ok) ==
    [method |-> method, url |-> url, action |-> action, body |-> body,
     objs |-> objs, ok |-> ok]

NoBody == [none |-> TRUE]

\* results of a call
Returned(ref) == [kind |-> "returned", ref |-> ref]
Raised(kind) == [kind |-> kind, ref |-> <<>>]
NoResult == [kind |-> "none", ref |-> <<>>]

----------------------------------------------------------------------------
(* change_lb_svc_target *)

\* the condition of line 164 on the rule at address r
RuleMatches(h, r, source_port, path) ==
    h[r].sourcePort = source_port /\ Get(h[r], "path") = path

\* the loop of lines 163-167 without its break: every matching rule is rewritten
PatchEveryRule(h, rules, source_port, path, target_svc_id) ==
    LET hits == {i \in DOMAIN rules : RuleMatches(h, rules[i], source_port, path)}
    IN [heap |-> [a \in DOMAIN h |->
                    IF \E i \in hits : rules[i] = a
                    THEN SetItem(h[a], "serviceId", target_svc_id) ELSE h[a]],
        changed |-> hits # {}]

\* the loop of lines 163-167 setting changed on every pass
PatchAndAlwaysChanged(h, rules, source_port, path, target_svc_id) ==
    LET hits == {i \in DOMAIN rules : RuleMatches(h, rules[i], source_port, path)}
        first == IF hits = {} THEN 0 ELSE CHOOSE i \in hits : \A j \in hits : i <= j
    IN [heap |-> IF first = 0 THEN h
                 ELSE [h EXCEPT ![rules[first]] = SetItem(@, "serviceId", target_svc_id)],
        changed |-> TRUE]

\* lines 162-167: rewrite the first matching rule and stop
PatchFirstRule(h, rules, source_port, path, target_svc_id) ==
    LET hits == {i \in DOMAIN rules : RuleMatches(h, rules[i], source_port, path)}
        first == IF hits = {} THEN 0 ELSE CHOOSE i \in hits : \A j \in hits : i <= j
    IN [heap |-> IF first = 0 THEN h
                 ELSE [h EXCEPT ![rules[first]] = SetItem(@, "serviceId", target_svc_id)],
        changed |-> first # 0]

change_lb_svc_target(source_port, path, target_svc_id, ok) ==
    /\ pc = "idle"
    /\ LET c == deepcopy(heap, Caller)
           lb_svc == c.ref
           lb_config == c.heap[lb_svc].lbConfig
           p == PatchFirstRule(c.heap, c.heap[lb_config].portRules,
                               source_port, path, target_svc_id)
           req == Request("PUT", p.heap[p.heap[lb_svc].links].self, NoneVal,
                          [lbConfig |-> Json(p.heap, lb_config)],
                          Reach(p.heap, lb_config), ok)
       IN /\ call' = [op |-> "change_lb_svc_target", source_port |-> source_port,
                      path |-> path, target_svc_id |-> target_svc_id]
          /\ svc' = lb_svc
          /\ IF ~p.changed
             THEN /\ result' = Raised("ValueError")
                  /\ heap' = p.heap
                  /\ UNCHANGED <<remote, log>>
             ELSE /\ log' = Append(log, req)
                  /\ IF ok
                     THEN /\ remote' = ServerPut(remote, req.body)
                          /\ heap' = Store(p.heap, "ret", remote')
                          /\ result' = Returned(<<"ret">>)
                     ELSE /\ result' = Raised("HTTPError")
                          /\ heap' = p.heap
                          /\ UNCHANGED remote
    /\ pc' = "done"
    /\ UNCHANGED <<input, now, deadline>>

----------------------------------------------------------------------------
(* The environment: the server's own transitions and the passing of time *)

\* the server moves a service through its transitional states by itself
ServerStep ==
    /\ \/ /\ remote.state = "upgrading"
          /\ remote' = [remote EXCEPT !.state = "upgraded"]
       \/ /\ remote.state \in {"finishing-upgrade", "restarting"}
          /\ remote' = [remote EXCEPT !.state = "active"]
       \/ /\ remote.healthState \in {"initializing", "unhealthy"}
          /\ remote' = [remote EXCEPT !.healthState = "healthy"]
       \/ /\ remote.healthState = "healthy"
          /\ remote' = [remote EXCEPT !.healthState = "unhealthy"]
    /\ UNCHANGED <<heap, input, now, pc, call, svc, deadline, log, result>>

\* a second passes while a call is running
Tick ==
    /\ pc \notin {"idle", "done"}
    /\ now < MaxClock - 1
    /\ now' = now + 1
    /\ UNCHANGED <<remote, heap, input, pc, call, svc, deadline, log, result>>

----------------------------------------------------------------------------
(* svc_ids, get_svc, refresh_svc *)

\* lines 102-106
svc_ids(h, s) == <<h[s].accountId, h[s].id>>

\* the request of get_svc, lines 45-48
get_svc_request(project_id, service_id, ok) ==
    Request("GET", ServiceUrl(project_id, service_id), NoneVal, NoBody, {}, ok)

\* lines 95-99
refresh_svc_request(h, s, ok) == get_svc_request(svc_ids(h, s)[1], svc_ids(h, s)[2], ok)

----------------------------------------------------------------------------
(* await_active, await_healthy *)

\* the field each loop watches and the value it waits for (lines 118, 135)
AwaitField == IF call.op = "await_healthy" THEN "healthState" ELSE "state"
AwaitTarget == IF call.op = "await_healthy" THEN "healthy" ELSE "active"

\* lines 114-117 and 131-134: the deadline
Deadline(t, timeout) == IF timeout # NoTimeout THEN t + timeout[1] ELSE DatetimeMax

\* the deadline test written with >= : a deadline equal to the reading has passed
ExpiredAtDeadline(t, d) == t >= d

\* lines 119 and 136: datetime.now() > deadline
Expired(t, d) == t > d

\* a loop that tests the deadline before it looks at the field
DeadlineFirst(matches, expired) ==
    IF expired THEN "raise" ELSE IF matches THEN "return" ELSE "sleep"

\* a loop that does not wait for the field
LoopNoWait(matches, expired) == "return"

\* a loop that never gives up
NeverRaise(matches, expired) == IF matches THEN "return" ELSE "sleep"

\* lines 118-121 and 135-138: one pass of the while loop up to the sleep
LoopOutcome(matches, expired) ==
    IF matches THEN "return" ELSE IF expired THEN "raise" ELSE "sleep"

\* the call: lines 114-117 / 131-134
await_begin(op, timeout) ==
    /\ pc = "idle"
    /\ call' = [op |-> op, timeout |-> timeout]
    /\ svc' = Caller
    /\ deadline' = Deadline(now, timeout)
    /\ pc' = "await"
    /\ UNCHANGED <<remote, heap, input, now, log, result>>

await_active(timeout) == await_begin("await_active", timeout)

await_healthy(timeout) == await_begin("await_healthy", timeout)

\* the loop head: lines 118-120, 123 / 135-137, 140
await_test ==
    /\ pc = "await"
    /\ LET o == LoopOutcome(heap[svc][AwaitField] = AwaitTarget, Expired(now, deadline))
       IN CASE o = "return" ->
                 IF call.op = "upgrade_svc_images"
                 THEN pc' = "upgrade" /\ UNCHANGED result
                 ELSE pc' = "done" /\ result' = Returned(svc)
            [] o = "raise" -> pc' = "done" /\ result' = Raised("Timeout")
            [] OTHER -> pc' = "sleep" /\ UNCHANGED result
    /\ UNCHANGED <<remote, heap, input, now, call, svc, deadline, log>>

\* sleep(1): lines 121 / 138
await_sleep ==
    /\ pc = "sleep"
    /\ now < MaxClock
    /\ now' = now + 1
    /\ log' = Append(log, Request("SLEEP", NoneVal, NoneVal, NoBody, {}, TRUE))
    /\ pc' = "refresh"
    /\ UNCHANGED <<remote, heap, input, call, svc, deadline, result>>

\* svc = refresh_svc(svc): lines 122 / 139
await_refresh(ok) ==
    /\ pc = "refresh"
    /\ LET req == refresh_svc_request(heap, svc, ok)
       IN /\ log' = Append(log, req)
          /\ IF ok /\ req.url = ServiceUrl(remote.accountId, remote.id)
             THEN /\ heap' = Store(heap, "resp", remote)
                  /\ svc' = <<"resp">>
                  /\ pc' = "await"
                  /\ UNCHANGED result
             ELSE /\ result' = Raised("HTTPError")
                  /\ pc' = "done"
                  /\ UNCHANGED <<heap, svc>>
    /\ UNCHANGED <<remote, input, now, call, deadline>>

----------------------------------------------------------------------------
(* finish_any_previous_upgrade *)

\* the server on an accepted action
ServerAction(doc, action, body) ==
    CASE action = "finishupgrade" -> [doc EXCEPT !.state = "finishing-upgrade"]
      [] action = "restart" -> [doc EXCEPT !.state = "restarting"]
      [] action = "upgrade" ->
            Update(doc, [state |-> "upgrading",
                         launchConfig |-> body.inServiceStrategy.launchConfig,
                         secondaryLaunchConfigs |->
                             body.inServiceStrategy.secondaryLaunchConfigs])
      [] OTHER -> doc

\* the guard written the wrong way round
NeedsFinishInverted(state) == state # "upgraded"

\* the guard dropped: every call posts
NeedsFinishAlways(state) == TRUE

\* line 185
NeedsFinish(state) == state = "upgraded"

\* lines 185-194 on the document at address s: the request if any, the
\* server's document, the heap, the document returned, whether it raised
Finish(h, s, doc, ok) ==
    IF ~NeedsFinish(h[s].state)
    THEN [reqs |-> <<>>, remote |-> doc, heap |-> h, ref |-> s, raised |-> FALSE]
    ELSE LET req == Request("POST", ServiceUrl(svc_ids(h, s)[1], svc_ids(h, s)[2]),
                            "finishupgrade", NoBody, {}, ok)
             after == ServerAction(doc, "finishupgrade", NoBody)
         IN IF ok
            THEN [reqs |-> <<req>>, remote |-> after, heap |-> Store(h, "resp", after),
                  ref |-> <<"resp">>, raised |-> FALSE]
            ELSE [reqs |-> <<req>>, remote |-> doc, heap |-> h, ref |-> s,
                  raised |-> TRUE]

finish_any_previous_upgrade(ok) ==
    /\ pc = "idle"
    /\ LET f == Finish(heap, Caller, remote, ok)
       IN /\ call' = [op |-> "finish_any_previous_upgrade"]
          /\ svc' = f.ref
          /\ log' = log \o f.reqs
          /\ remote' = f.remote
          /\ heap' = f.heap
          /\ result' = IF f.raised THEN Raised("HTTPError") ELSE Returned(f.ref)
    /\ pc' = "done"
    /\ UNCHANGED <<input, now, deadline>>

----------------------------------------------------------------------------
(* upgrade_svc_images *)

\* the increasing enumeration of a finite set of integers
RECURSIVE Sorted(_)
Sorted(S) ==
    IF S = {} THEN <<>>
    ELSE LET m == CHOOSE x \in S : \A y \in S : x <= y
         IN <<m>> \o Sorted(S \ {m})

\* svc.get('secondaryLaunchConfigs', [])
SlcList(h, s) ==
    IF "secondaryLaunchConfigs" \in DOMAIN h[s] THEN h[s].secondaryLaunchConfigs ELSE <<>>

\* line 269: the dict from name to launch config; a later entry of a name wins
SlcDict(h, s) ==
    LET lst == SlcList(h, s)
    IN [n \in {h[lst[i]].name : i \in DOMAIN lst} |->
          lst[CHOOSE i \in DOMAIN lst :
                /\ h[lst[i]].name = n
                /\ \A j \in DOMAIN lst : h[lst[j]].name = n => j <= i]]

\* line 284: list(slcs.values()), in the order the names were first inserted
SlcValues(h, s) ==
    LET lst == SlcList(h, s)
        firsts == Sorted({i \in DOMAIN lst :
                            \A j \in DOMAIN lst : j < i => h[lst[j]].name # h[lst[i]].name})
    IN [k \in DOMAIN firsts |-> SlcDict(h, s)[h[lst[firsts[k]]].name]]

\* lines 263-265 up to the first poll: copy, finish a previous upgrade, wait without timeout
upgrade_svc_images(new_image, new_secondary_images, ok) ==
    /\ pc = "idle"
    /\ LET c == deepcopy(heap, Caller)
           f == Finish(c.heap, c.ref, remote, ok)
       IN /\ call' = [op |-> "upgrade_svc_images", new_image |-> new_image,
                      new_secondary_images |-> new_secondary_images]
          /\ svc' = f.ref
          /\ log' = log \o f.reqs
          /\ remote' = f.remote
          /\ heap' = f.heap
          /\ IF f.raised
             THEN result' = Raised("HTTPError") /\ pc' = "done"
             ELSE UNCHANGED result /\ pc' = "await"
    /\ deadline' = Deadline(now, NoTimeout)
    /\ UNCHANGED <<input, now>>

\* lines 266-288: patch the launch configs of the active document and post the upgrade
upgrade_svc_images_post(ok) ==
    /\ pc = "upgrade"
    /\ LET launch_config == heap[svc].launchConfig
           slcs == SlcDict(heap, svc)
           values == SlcValues(heap, svc)
           images == call.new_secondary_images
           h1 == IF call.new_image # NoneVal
                 THEN [heap EXCEPT ![launch_config] =
                          SetItem(@, "imageUuid", DockerUuid(call.new_image))]
                 ELSE heap
           h2 == [a \in DOMAIN h1 |->
                    IF \E n \in DOMAIN images \cap DOMAIN slcs : slcs[n] = a
                    THEN LET n == CHOOSE m \in DOMAIN images \cap DOMAIN slcs : slcs[m] = a
                         IN SetItem(h1[a], "imageUuid", DockerUuid(images[n]))
                    ELSE h1[a]]
           req == Request("POST", ServiceUrl(svc_ids(h2, svc)[1], svc_ids(h2, svc)[2]),
                          "upgrade",
                          [inServiceStrategy |->
                             [launchConfig |-> Json(h2, launch_config),
                              secondaryLaunchConfigs |->
                                 [k \in DOMAIN values |-> Json(h2, values[k])]]],
                          Reach(h2, launch_config)
                              \cup UNION {Reach(h2, values[k]) : k \in DOMAIN values},
                          ok)
       IN IF ~(DOMAIN images \subseteq DOMAIN slcs)
          THEN /\ result' = Raised("KeyError")
               /\ heap' = h2
               /\ UNCHANGED <<remote, log>>
          ELSE /\ log' = Append(log, req)
               /\ IF ok
                  THEN /\ remote' = ServerAction(remote, "upgrade", req.body)
                       /\ heap' = Store(h2, "ret", remote')
                       /\ result' = Returned(<<"ret">>)
                  ELSE /\ result' = Raised("HTTPError")
                       /\ heap' = h2
                       /\ UNCHANGED remote
    /\ pc' = "done"
    /\ UNCHANGED <<input, now, call, svc, deadline>>

----------------------------------------------------------------------------
(* create_svc, clone_svc *)

\* an optional argument: <<>> is None, <<x>> is the value x
Optional(S) == {<<>>} \cup {<<x>> : x \in S}

\* the caller's config and launch_config dicts, as objects of their own
WithArgs(h, config, launch_config) ==
    LET h1 == IF config # <<>> THEN Store(h, "config", config[1]) ELSE h
    IN IF launch_config # <<>> THEN Store(h1, "launch_config", launch_config[1]) ELSE h1

ArgRef(arg, name) == IF arg # <<>> THEN <<<<name>>>> ELSE <<>>

\* the server's document of a service it has just created from body
ServerCreate(project_id, body) ==
    Update(body, [id |-> "1s99", accountId |-> project_id, state |-> "activating",
                  healthState |-> "initializing",
                  links |-> [self |-> ServiceUrl(project_id, "1s99")]])

\* the two updates of lines 212-226 in the other order: the caller's entries win
CreateDocCallerWins(h, stack_id, name, image_name, config, launch_config) ==
    LET c == <<"_config">>
        l == <<"_launch_config">>
        h1 == (c :> [scale |-> 1, startOnCreate |-> TRUE]) @@ (l :> [tty |-> TRUE]) @@ h
        h2 == [h1 EXCEPT ![c] = Update(@, [type |-> "service", name |-> name,
                                           stackId |-> stack_id, launchConfig |-> l]),
                         ![l] = Update(@, [imageUuid |-> DockerUuid(image_name)])]
        h3 == IF config # <<>> THEN [h2 EXCEPT ![c] = Update(@, h2[config[1]])] ELSE h2
    IN IF launch_config # <<>> THEN [h3 EXCEPT ![l] = Update(@, h3[launch_config[1]])] ELSE h3

\* lines 203-226: the dicts _config and _launch_config; config and launch_config
\* are the addresses of the caller's dicts, when given
CreateDoc(h, stack_id, name, image_name, config, launch_config) ==
    LET c == <<"_config">>
        l == <<"_launch_config">>
        h1 == (c :> [scale |-> 1, startOnCreate |-> TRUE]) @@ (l :> [tty |-> TRUE]) @@ h
        h2 == IF config # <<>> THEN [h1 EXCEPT ![c] = Update(@, h1[config[1]])] ELSE h1
        h3 == IF launch_config # <<>>
              THEN [h2 EXCEPT ![l] = Update(@, h2[launch_config[1]])] ELSE h2
        h4 == [h3 EXCEPT ![c] = Update(@, [type |-> "service", name |-> name,
                                           stackId |-> stack_id, launchConfig |-> l])]
    IN [h4 EXCEPT ![l] = Update(@, [imageUuid |-> DockerUuid(image_name)])]

create_svc(project_id, stack_id, name, image_name, config, launch_config, ok) ==
    /\ pc = "idle"
    /\ LET h == CreateDoc(WithArgs(heap, config, launch_config), stack_id, name, image_name,
                          ArgRef(config, "config"), ArgRef(launch_config, "launch_config"))
           req == Request("POST", ServicesUrl(project_id), NoneVal, Json(h, <<"_config">>),
                          Reach(h, <<"_config">>), ok)
       IN /\ call' = [op |-> "create_svc", project_id |-> project_id, stack_id |-> stack_id,
                      name |-> name, image_name |-> image_name,
                      config |-> config, launch_config |-> launch_config]
          /\ svc' = <<"_config">>
          /\ log' = Append(log, req)
          /\ IF ok
             THEN /\ heap' = Store(h, "ret", ServerCreate(project_id, req.body))
                  /\ result' = Returned(<<"ret">>)
             ELSE /\ heap' = h
                  /\ result' = Raised("HTTPError")
    /\ pc' = "done"
    /\ UNCHANGED <<remote, input, now, deadline>>

\* lines 241-248: the copy with the caller's overrides laid over it
CloneDoc(h, s, new_name, new_image, config, launch_config) ==
    LET c == deepcopy(h, s)
        h1 == IF config # <<>>
              THEN [c.heap EXCEPT ![c.ref] = Update(@, c.heap[config[1]])] ELSE c.heap
        lc == h1[c.ref].launchConfig
        h2 == IF launch_config # <<>>
              THEN [h1 EXCEPT ![lc] = Update(@, h1[launch_config[1]])] ELSE h1
        h3 == IF new_image # NoneVal
              THEN [h2 EXCEPT ![lc] = SetItem(@, "imageUuid", DockerUuid(new_image))] ELSE h2
    IN [heap |-> [h3 EXCEPT ![c.ref] = SetItem(@, "name", new_name)], ref |-> c.ref]

clone_svc(new_name, new_image, config, launch_config, ok) ==
    /\ pc = "idle"
    /\ LET d == CloneDoc(WithArgs(heap, config, launch_config), Caller, new_name, new_image,
                         ArgRef(config, "config"), ArgRef(launch_config, "launch_config"))
           project_id == svc_ids(d.heap, d.ref)[1]
           req == Request("POST", ServicesUrl(project_id), NoneVal, Json(d.heap, d.ref),
                          Reach(d.heap, d.ref), ok)
       IN /\ call' = [op |-> "clone_svc", new_name |-> new_name, new_image |-> new_image,
                      config |-> config, launch_config |-> launch_config]
          /\ svc' = d.ref
          /\ log' = Append(log, req)
          /\ IF ok
             THEN /\ heap' = Store(d.heap, "ret", ServerCreate(project_id, req.body))
                  /\ result' = Returned(<<"ret">>)
             ELSE /\ heap' = d.heap
                  /\ result' = Raised("HTTPError")
    /\ pc' = "done"
    /\ UNCHANGED <<remote, input, now, deadline>>

----------------------------------------------------------------------------
(* rename_svc, restart_svc *)

\* lines 85-92
rename_svc(new_name, ok) ==
    /\ pc = "idle"
    /\ LET req == Request("PUT", heap[heap[Caller].links].self, NoneVal,
                          [name |-> new_name], {}, ok)
       IN /\ call' = [op |-> "rename_svc", new_name |-> new_name]
          /\ log' = Append(log, req)
          /\ IF ok
             THEN /\ remote' = ServerPut(remote, req.body)
                  /\ heap' = Store(heap, "ret", remote')
                  /\ result' = Returned(<<"ret">>)
             ELSE /\ result' = Raised("HTTPError")
                  /\ UNCHANGED <<remote, heap>>
    /\ pc' = "done"
    /\ UNCHANGED <<input, now, svc, deadline>>

\* lines 291-306
restart_svc(batch_size, interval, ok) ==
    /\ pc = "idle"
    /\ LET ids == svc_ids(heap, Caller)
           req == Request("POST", ServiceUrl(ids[1], ids[2]), "restart",
                          [rollingRestartStrategy |->
                              [batchSize |-> batch_size, intervalMillis |-> interval]],
                          {}, ok)
       IN /\ call' = [op |-> "restart_svc", batch_size |-> batch_size, interval |-> interval]
          /\ log' = Append(log, req)
          /\ IF ok
             THEN /\ remote' = ServerAction(remote, "restart", req.body)
                  /\ heap' = Store(heap, "ret", remote')
                  /\ result' = Returned(<<"ret">>)
             ELSE /\ result' = Raised("HTTPError")
                  /\ UNCHANGED <<remote, heap>>
    /\ pc' = "done"
    /\ UNCHANGED <<input, now, svc, deadline>>

----------------------------------------------------------------------------
(* Specifications *)

InitWith(docs) ==
    /\ remote \in docs
    /\ heap = Alloc(Caller, remote)
    /\ input = remote
    /\ now = 0
    /\ pc = "idle"
    /\ call = [op |-> "none"]
    /\ svc = Caller
    /\ deadline = DatetimeMax
    /\ log = <<>>
    /\ result = NoResult

States == {"active", "upgraded", "upgrading", "finishing-upgrade", "inactive"}
HealthStates == {"healthy", "unhealthy", "initializing"}

SlcLists ==
    { <<>>,
      <<Sidekick("sk1", "sk:1")>>,
      <<Sidekick("sk1", "sk:1"), Sidekick("sk2", "db:1")>>,
      <<Sidekick("sk1", "sk:1"), Sidekick("sk1", "sk:0")>> }

Timeouts == {NoTimeout} \cup {<<t>> : t \in (0 - 1)..MaxTimeout}
Images == {NoneVal, "app:2"}
SecondaryImages == {<<>>, [sk1 |-> "sk:2"], [sk1 |-> "sk:2", sk2 |-> "db:2"], [zz |-> "zz:1"]}
Names == {"api", "web2"}
Configs ==
    Optional({[scale |-> 3],
              [type |-> "loadBalancerService", name |-> "evil", stackId |-> "1st0"],
              [launchConfig |-> [imageUuid |-> "docker:evil", tty |-> FALSE]]})
LaunchConfigs == Optional({[tty |-> FALSE], [imageUuid |-> "docker:evil"]})

LbDocs == {ServiceDoc("active", "healthy", rules, FALSE, <<>>) : rules \in RuleLists}

AwaitDocs == {ServiceDoc(s, hs, <<>>, FALSE, <<>>) : s \in States, hs \in HealthStates}

UpDocs ==
    {ServiceDoc(s, "healthy", <<>>, FALSE, <<>>) : s \in States}
    \cup {ServiceDoc(s, "healthy", <<>>, TRUE, slcs) : s \in States, slcs \in SlcLists}

CreateDocs ==
    {ServiceDoc("active", "healthy", rules, TRUE, <<Sidekick("sk1", "sk:1")>>)
        : rules \in SeqsUpTo(Rules, 1)}

\* change_lb_svc_target
InitLb == InitWith(LbDocs)

NextLb ==
    \E source_port \in Ports, path \in Paths \cup {NoneVal},
       target_svc_id \in Targets, ok \in BOOLEAN :
        change_lb_svc_target(source_port, path, target_svc_id, ok)

SpecLb == InitLb /\ [][NextLb]_vars

\* await_active, await_healthy
InitAwait == InitWith(AwaitDocs)

Poll == await_test \/ await_sleep \/ \E ok \in BOOLEAN : await_refresh(ok)

NextAwait ==
    \/ \E timeout \in Timeouts : await_active(timeout)
    \/ \E timeout \in Timeouts : await_healthy(timeout)
    \/ Poll
    \/ ServerStep
    \/ Tick

SpecAwait == InitAwait /\ [][NextAwait]_vars

\* the client is a sequential program: a call that can take a step takes it
FairAwait == SpecAwait /\ WF_vars(Poll)

\* finish_any_previous_upgrade, upgrade_svc_images
InitUp == InitWith(UpDocs)

NextUp ==
    \/ \E ok \in BOOLEAN : finish_any_previous_upgrade(ok)
    \/ \E new_image \in Images, new_secondary_images \in SecondaryImages, ok \in BOOLEAN :
          upgrade_svc_images(new_image, new_secondary_images, ok)
    \/ \E ok \in BOOLEAN : upgrade_svc_images_post(ok)
    \/ Poll
    \/ ServerStep

SpecUp == InitUp /\ [][NextUp]_vars

\* create_svc, clone_svc
InitCreate == InitWith(CreateDocs)

NextCreate ==
    \/ \E name \in Names, image_name \in Images \ {NoneVal},
          config \in Configs, launch_config \in LaunchConfigs, ok \in BOOLEAN :
          create_svc(PROJECT, "1st3", name, image_name, config, launch_config, ok)
    \/ \E new_name \in Names, new_image \in Images,
          config \in Configs, launch_config \in LaunchConfigs, ok \in BOOLEAN :
          clone_svc(new_name, new_image, config, launch_config, ok)

SpecCreate == InitCreate /\ [][NextCreate]_vars

\* every operation
Init == InitWith(AwaitDocs \cup UpDocs \cup CreateDocs)

Next ==
    \/ NextLb
    \/ NextAwait
    \/ NextUp
    \/ NextCreate
    \/ \E new_name \in Names, ok \in BOOLEAN : rename_svc(new_name, ok)
    \/ \E batch_size \in {1, 2}, ok \in BOOLEAN : restart_svc(batch_size, 1000, ok)

Spec == Init /\ [][Next]_vars

----------------------------------------------------------------------------
(* Properties *)

IsWrite(r) == r.method \in {"PUT", "POST"}
Writes == {i \in DOMAIN log : IsWrite(log[i])}
Fetches == {i \in DOMAIN log : log[i].method = "GET"}
Sleeps == {i \in DOMAIN log : log[i].method = "SLEEP"}
Applied == {i \in Writes : log[i].ok}

\* the caller's document is, object for object, what it was when the call was made
CallerIntact ==
    /\ Json(heap, Caller) = input
    /\ \A a \in DOMAIN Alloc(Caller, input) : a \in DOMAIN heap /\ heap[a] = Alloc(Caller, input)[a]

InLb == call.op = "change_lb_svc_target"

\* the rules of the input that match the call's (source_port, path)
LbHits ==
    {i \in DOMAIN input.lbConfig.portRules :
        /\ input.lbConfig.portRules[i].sourcePort = call.source_port
        /\ (IF "path" \in DOMAIN input.lbConfig.portRules[i]
            THEN input.lbConfig.portRules[i].path ELSE NoneVal) = call.path}

(* C1: when some rule of the input matches (source_port, path),             *)
(* change_lb_svc_target issues exactly one request, a PUT of {lbConfig},     *)
(* and the lbConfig it submits is the input's except that the first          *)
(* matching rule's serviceId is target_svc_id: every other rule, later       *)
(* matching rules included, and every other field of that rule are the       *)
(* input's.                                                                  *)
C1_OnlyFirstMatchingRuleRewritten ==
    (pc = "done" /\ InLb /\ LbHits # {}) =>
        LET rin == input.lbConfig.portRules
            first == CHOOSE i \in LbHits : \A j \in LbHits : i <= j
        IN /\ Len(log) = 1
           /\ log[1].method = "PUT"
           /\ log[1].url = input.links.self
           /\ DOMAIN log[1].body = {"lbConfig"}
           /\ LET out == log[1].body.lbConfig
              IN /\ DOMAIN out = DOMAIN input.lbConfig
                 /\ DOMAIN out.portRules = DOMAIN rin
                 /\ \A i \in DOMAIN rin :
                       /\ DOMAIN out.portRules[i] = DOMAIN rin[i]
                       /\ \A k \in DOMAIN rin[i] :
                             IF i = first /\ k = "serviceId"
                             THEN out.portRules[i][k] = call.target_svc_id
                             ELSE out.portRules[i][k] = rin[i][k]

\* two rules match, the target differs from the current one, the PUT was accepted
C1_Witness ==
    /\ pc = "done" /\ InLb
    /\ Cardinality(LbHits) >= 2
    /\ call.target_svc_id = "1s9"
    /\ Len(log) = 1 /\ log[1].ok
    /\ remote.lbConfig.portRules[2].serviceId = "1s8"

(* C2: when no rule of the input matches (source_port, path),               *)
(* change_lb_svc_target raises ValueError and issues no request at all, so   *)
(* the server's document is what it was.                                     *)
C2_NoMatchRaisesBeforeAnyWrite ==
    (pc = "done" /\ InLb /\ LbHits = {}) =>
        /\ result.kind = "ValueError"
        /\ log = <<>>
        /\ remote = input

\* rules exist, none matches
C2_Witness ==
    /\ pc = "done" /\ InLb
    /\ LbHits = {}
    /\ Len(input.lbConfig.portRules) = 2
    /\ result.kind = "ValueError"

InFinish == call.op = "finish_any_previous_upgrade"

(* C3: finish_any_previous_upgrade on a document whose state is not         *)
(* 'upgraded' issues no request and returns the very document it was given,  *)
(* unchanged; on a document whose state is 'upgraded' it issues exactly one  *)
(* request, a POST with action=finishupgrade to that service's               *)
(* accountId/id.                                                             *)
C3_FinishIffUpgraded ==
    (pc = "done" /\ InFinish) =>
        IF input.state # "upgraded"
        THEN /\ log = <<>>
             /\ result = Returned(Caller)
             /\ CallerIntact
        ELSE /\ Len(log) = 1
             /\ log[1].method = "POST"
             /\ log[1].action = "finishupgrade"
             /\ log[1].url = ServiceUrl(input.accountId, input.id)

\* an upgraded service whose upgrade the call finished
C3_Witness ==
    /\ pc = "done" /\ InFinish
    /\ input.state = "upgraded"
    /\ Len(log) = 1 /\ log[1].ok
    /\ remote.state = "finishing-upgrade"
    /\ result = Returned(<<"resp">>)

InAwait == call.op \in {"await_active", "await_healthy"}

\* the watched field of the input does not have the awaited value
InputPending == input[AwaitField] # AwaitTarget

(* C4 (as stated): await_active / await_healthy with timeout <= 0 on a      *)
(* document whose field does not match raise Timeout without any fetch and   *)
(* without sleeping.                                                         *)
C4_NonPositiveTimeoutRaisesAtOnce ==
    (InAwait /\ call.timeout # NoTimeout /\ call.timeout[1] <= 0 /\ InputPending) =>
        /\ log = <<>>
        /\ pc = "done" => result.kind = "Timeout"

(* C4 (amended): on a document whose field does not match, the first pass   *)
(* of the loop raises Timeout, with no fetch and no sleep, exactly when the  *)
(* clock reads later than the deadline; with timeout < 0 it always does,     *)
(* with timeout = 0 it does when the clock has advanced since the call and   *)
(* otherwise goes on to sleep.                                               *)
C4_PastDeadlineRaisesAtOnce ==
    [][(/\ pc = "await" /\ pc' # "await"
        /\ InAwait /\ call.timeout # NoTimeout /\ call.timeout[1] <= 0
        /\ InputPending /\ log = <<>>)
       => \/ /\ now > deadline
             /\ pc' = "done" /\ result'.kind = "Timeout" /\ log' = <<>>
          \/ /\ now = deadline /\ call.timeout[1] = 0
             /\ pc' = "sleep" /\ log' = <<>>]_vars

\* timeout 0, the clock had advanced: Timeout with nothing fetched
C4_Witness ==
    /\ pc = "done" /\ InAwait
    /\ call.timeout = <<0>>
    /\ InputPending
    /\ result.kind = "Timeout"
    /\ log = <<>>
    /\ now > deadline

(* C5: await_active on a document whose state is already 'active' (and      *)
(* await_healthy on one whose healthState is 'healthy') returns that same    *)
(* document with no sleep and no fetch, whatever the timeout: None, 0,       *)
(* negative or positive.  It never raises.                                   *)
C5_AlreadyMatchingReturnsAtOnce ==
    (InAwait /\ ~InputPending) =>
        /\ log = <<>>
        /\ pc \in {"await", "done"}
        /\ pc = "done" => (result = Returned(Caller) /\ CallerIntact)

\* an expired deadline and a matching document: returned all the same
C5_Witness ==
    /\ pc = "done" /\ InAwait
    /\ ~InputPending
    /\ call.timeout = <<0 - 1>>
    /\ now > deadline
    /\ result = Returned(Caller)

\* the last request of the call is a fetch the server refused
FetchFailed == log # <<>> /\ log[Len(log)].method = "GET" /\ ~log[Len(log)].ok

C6_Outcome ==
    (pc = "done" /\ InAwait) =>
        /\ result.kind \in {"returned", "Timeout", "HTTPError"}
        /\ result.kind = "HTTPError" <=> FetchFailed
        /\ result.kind = "returned" =>
              /\ result.ref = svc
              /\ heap[svc][AwaitField] = AwaitTarget
        /\ result.kind = "Timeout" =>
              /\ call.timeout # NoTimeout
              /\ deadline = call.timeout[1]
              /\ now > deadline
              /\ heap[svc][AwaitField] # AwaitTarget

(* C6: a call of await_active / await_healthy with a timeout terminates     *)
(* (time advances; a fetch the server refuses ends the call with the HTTP    *)
(* error).  When every fetch succeeds it ends by returning a document whose  *)
(* field matches, or by raising Timeout; Timeout is raised only when the     *)
(* clock is past the deadline (call time + timeout) and the last document    *)
(* observed does not match.  Without a timeout it never raises Timeout and   *)
(* returns only a document that matches.                                     *)
C6_TimedAwaitTerminates ==
    /\ [](C6_Outcome)
    /\ (InAwait /\ call.timeout # NoTimeout) ~> (pc = "done")

\* a timed wait that polled twice and then gave up
C6_Witness ==
    /\ pc = "done" /\ InAwait
    /\ call.timeout = <<1>>
    /\ result.kind = "Timeout"
    /\ Cardinality(Fetches) = 2
    /\ Cardinality(Sleeps) = 2

InUpgrade == call.op = "upgrade_svc_images"

(* C7: in an upgrade_svc_images call, finishupgrade is requested only when  *)
(* the input state is 'upgraded' and then as the first request, before any   *)
(* poll; the upgrade action is requested at most once, as the last request,  *)
(* and only when the document in svc (the input's copy, the finishupgrade    *)
(* response or the last poll's document) has state 'active'.                 *)
C7_UpgradeOrdering ==
    InUpgrade =>
        /\ \A i \in DOMAIN log :
              log[i].action = "finishupgrade" => (i = 1 /\ input.state = "upgraded")
        /\ (input.state = "upgraded" /\ log # <<>>) => log[1].action = "finishupgrade"
        /\ \A i \in DOMAIN log :
              log[i].action = "upgrade" =>
                 /\ i = Len(log)
                 /\ pc = "done"
                 /\ heap[svc].state = "active"
        /\ pc = "upgrade" => heap[svc].state = "active"
        /\ \A i \in Fetches : i > 1 /\ log[i - 1].method = "SLEEP"

\* finishupgrade, then polls until active, then the upgrade
C7_Witness ==
    /\ pc = "done" /\ InUpgrade
    /\ Len(log) >= 4
    /\ log[1].action = "finishupgrade"
    /\ Fetches # {}
    /\ log[Len(log)].action = "upgrade"
    /\ log[Len(log)].ok

InCreate == call.op = "create_svc"

\* the caller's dict, or the empty dict for None
ArgDict(arg) == IF arg # <<>> THEN arg[1] ELSE <<>>

(* C8: create_svc submits one POST whose document is the defaults overlaid  *)
(* by the caller's config overlaid by the forced fields: type 'service',     *)
(* the name, the stackId and, as launchConfig, {tty: true} overlaid by the   *)
(* caller's launch_config overlaid by imageUuid 'docker:' + image_name,      *)
(* whatever the caller's dicts set; with no overrides scale is 1,            *)
(* startOnCreate is true and tty is true.                                    *)
C8_CreateForcesIdentityAndImage ==
    (pc = "done" /\ InCreate) =>
        /\ Len(log) = 1
        /\ log[1].method = "POST"
        /\ log[1].url = ServicesUrl(call.project_id)
        /\ LET doc == log[1].body
               lc == Update(Update([tty |-> TRUE], ArgDict(call.launch_config)),
                            [imageUuid |-> "docker:" \o call.image_name])
           IN /\ doc.type = "service"
              /\ doc.name = call.name
              /\ doc.stackId = call.stack_id
              /\ doc.launchConfig = lc
              /\ doc.launchConfig.imageUuid = "docker:" \o call.image_name
              /\ \A k \in DOMAIN doc \ {"type", "name", "stackId", "launchConfig"} :
                    doc[k] = Update([scale |-> 1, startOnCreate |-> TRUE],
                                    ArgDict(call.config))[k]
              /\ DOMAIN doc = {"scale", "startOnCreate", "type", "name", "stackId",
                               "launchConfig"} \cup DOMAIN ArgDict(call.config)
              /\ (call.config = <<>> /\ call.launch_config = <<>>) =>
                    /\ doc.scale = 1
                    /\ doc.startOnCreate = TRUE
                    /\ doc.launchConfig.tty = TRUE

\* the caller tried to set launchConfig and imageUuid
C8_Witness ==
    /\ pc = "done" /\ InCreate
    /\ call.config = <<[launchConfig |-> [imageUuid |-> "docker:evil", tty |-> FALSE]]>>
    /\ call.launch_config = <<[imageUuid |-> "docker:evil"]>>
    /\ log[1].ok
    /\ log[1].body.launchConfig = [tty |-> TRUE, imageUuid |-> "docker:app:2"]

\* the call ended with the HTTP error of a write request
WriteFailed == pc = "done" /\ result.kind = "HTTPError" /\ IsWrite(log[Len(log)])

(* C9 (as stated): when a call fails with the error of a write request, no  *)
(* write of the call has been applied: the remote state is what it was.      *)
C9_FailedCallAppliedNothing == WriteFailed => Applied = {}

(* C9 (amended): when a call fails with the error of a write request, that  *)
(* request is the call's last and was not applied, and no other write of     *)
(* the call was applied, with one exception: an upgrade_svc_images call on   *)
(* an input in state 'upgraded' whose upgrade action fails has already had   *)
(* its finishupgrade applied.                                                *)
C9_FailedCallAppliedAtMostFinish ==
    WriteFailed =>
        /\ ~log[Len(log)].ok
        /\ Applied \subseteq {1}
        /\ Applied = {1} =>
              /\ InUpgrade
              /\ input.state = "upgraded"
              /\ log[1].action = "finishupgrade"
              /\ log[Len(log)].action = "upgrade"
        /\ ~InUpgrade => Len(log) = 1

\* finishupgrade applied, upgrade refused
C9_Witness ==
    /\ WriteFailed
    /\ InUpgrade
    /\ Applied = {1}
    /\ remote.state # input.state

InCopying == call.op \in {"change_lb_svc_target", "clone_svc", "upgrade_svc_images"}

====
